---- MODULE Spec2Model ----
(***************************************************************************)
(* Windows service manager of the windows-machine-config-operator daemon:  *)
(* the real manager (package manager, src/unnamed/part_000) and its test   *)
(* double (package fake, src/pkg/daemon/fake/manager.go).                  *)
(*                                                                         *)
(* The registry of services, their svc.State and their declared            *)
(* dependencies are the state.  A manager call (CreateService,             *)
(* DeleteService, EnsureServiceState) is executed step by step on an       *)
(* explicit call stack, because EnsureServiceState is recursive and, in    *)
(* the real manager, interleaves with the service control manager          *)
(* completing pending transitions.                                         *)
(***************************************************************************)
EXTENDS Integers, Sequences, FiniteSets, TLC

\* ------------------------------------------------------------------ bounds
\* largest total number of declared dependency entries (mgr.Config.Dependencies)
\* in the registry
MaxEdges == 2
\* largest number of services whose transition is pending at the same time
MaxPending == 1
\* deepest nesting of EnsureServiceState calls explored
MaxDepth == 4
\* number of Query attempts WaitForState makes before it times out
MaxPolls == 2
\* number of goroutines calling the test double at the same time
MaxCallers == 2
\* largest buffer size, in records, EnumDependentServicesW asks for
MaxBytes == 3

\* ------------------------------------------------------------------ values
Names == {"a", "b", "c"}

Variants == {"real", "fake"}

\* svc.State values a service is found in
States == {"stopped", "running", "start_pending", "stop_pending"}

\* svc.State values a caller may ask for
Targets == {"running", "stopped", "stop_pending", "paused"}

DepLists == UNION {[1..k -> Names] : k \in 0..MaxEdges}

NoCall == [op |-> "none", name |-> "none", target |-> "none"]

\* goroutines calling the test double
Callers == 1..MaxCallers

\* sync.Mutex{}: held by no goroutine
Unlocked == 0

\* a goroutine that has not called the manager
NoOp == [op |-> "none", name |-> "none", pc |-> "idle", exists |-> FALSE, raced |-> FALSE, result |-> "none"]

\* manager.listDependentServices not entered: var serviceBuffer []byte;
\* var bytesNeeded uint32
NoEnum == [pc |-> "idle", svc |-> "none", serviceBuffer |-> 0, bytesNeeded |-> 0, answer |-> "none", attempts |-> 0]

VARIABLES
    variant,   \* which Manager implementation this run uses
    svcs,      \* names in the registry (keys of fakeServiceList.svcs / the SCM database)
    status,    \* status[n]: svc.State of service n (FakeService.status.State)
    config,    \* config[n]: declared dependency list (mgr.Config.Dependencies)
    stack,     \* frames of the EnsureServiceState calls in progress, innermost last
    call,      \* the manager call in progress, or the last one made
    result,    \* "none" while a call runs, else what the last call returned
    events,    \* Start / Control / List requests issued by the current call, in order
    pre,       \* registry as it was when the current call was made
    open,      \* service control manager handles the current call opened and has not closed
    mutex,     \* the goroutine holding fakeServiceList.m, or Unlocked
    callers,   \* callers[t]: the manager call goroutine t is running on the test double
    object,    \* object[n]: the FakeService stored under name n (0: from NewTestMgr; t: made by caller t)
    enum       \* the enumeration loop of manager.listDependentServices

vars == <<variant, svcs, status, config, stack, call, result, events, pre, open, mutex, callers, object, enum>>

\* state of the concurrent callers of the test double and of the enumeration loop
others == <<mutex, callers, object, enum>>

\* ------------------------------------------------------------------ helpers
Range(s) == {s[i] : i \in 1..Len(s)}

\* number of declared dependency entries of the registered services
Edges(cfg, present) ==
    LET RECURSIVE Sum(_)
        Sum(S) == IF S = {} THEN 0
                  ELSE LET n == CHOOSE n \in S : TRUE
                       IN Len(cfg[n]) + Sum(S \ {n})
    IN Sum(present)

\* the dependency declarations explored
Configs == {c \in [Names -> DepLists] : Edges(c, Names) <= MaxEdges}

\* the service states explored
Statuses == {st \in [Names -> States] : Cardinality({n \in Names : st[n] \in {"start_pending", "stop_pending"}}) <= MaxPending}

Snapshot == [svcs |-> svcs, status |-> status, config |-> config]

Pending(st) == {n \in Names : st[n] \in {"start_pending", "stop_pending"}}

\* the states in which the service control manager can leave n after it has
\* accepted a request that ends in state final
Accepted(st, n, pending, final) ==
    {final} \cup (IF Cardinality(Pending(st) \ {n}) < MaxPending THEN {pending} ELSE {})

Count(seq, x) == Cardinality({i \in 1..Len(seq) : seq[i] = x})

\* every order in which the elements of S can be visited
Orders(S) == {o \in [1..Cardinality(S) -> S] : Range(o) = S}

\* ------------------------------------------------------------------ service handles
\* FakeService.Query / mgr.Service.Query: the state recorded for the service
Query(st, n) == st[n]

\* services registered in the registry that declare n as a dependency
Declaring(n) == {d \in svcs : n \in Range(config[d])}

\* FakeService.Start: the double has no background worker, its status field
\* changes in the call.  Outcomes are [err, state].
FakeStart(st, n) ==
    IF st[n] = "running" THEN {[err |-> "err_start", state |-> st[n]]}
    ELSE {[err |-> "ok", state |-> "running"]}

\* mgr.Service.Start against the service control manager: the request is
\* accepted and the transition completes now or later
RealStart(st, n) ==
    IF st[n] = "running" THEN {[err |-> "err_start", state |-> st[n]]}
    ELSE {[err |-> "ok", state |-> s] : s \in Accepted(st, n, "start_pending", "running")}

\* FakeService.Control(svc.Stop): refused while a service that declares n is
\* not stopped, and for a service that is already stopped
FakeControl(st, n) ==
    IF st[n] = "stopped" THEN {[err |-> "err_not_active", state |-> st[n]]}
    ELSE IF \E d \in Declaring(n) \ {n} : st[d] # "stopped"
         THEN {[err |-> "err_dependents_running", state |-> st[n]]}
         ELSE {[err |-> "ok", state |-> "stopped"]}

\* mgr.Service.Control(svc.Stop) against the service control manager
RealControl(st, n) ==
    IF st[n] = "stopped" THEN {[err |-> "err_not_active", state |-> st[n]]}
    ELSE IF \E d \in Declaring(n) : st[d] # "stopped"
         THEN {[err |-> "err_dependents_running", state |-> st[n]]}
         ELSE {[err |-> "ok", state |-> s] : s \in Accepted(st, n, "stop_pending", "stopped")}

\* ------------------------------------------------------------------ dependent enumeration
\* inner loop of testMgr.listDependentServices: name is appended once for
\* every entry of its dependency list that equals serviceName
RECURSIVE AppendMatches(_, _, _)
AppendMatches(deps, serviceName, name) ==
    IF deps = <<>> THEN <<>>
    ELSE (IF Head(deps) = serviceName THEN <<name>> ELSE <<>>)
         \o AppendMatches(Tail(deps), serviceName, name)

\* testMgr.listDependentServices, visiting the map in the given order
RECURSIVE FakeListDependentServices(_, _)
FakeListDependentServices(serviceName, order) ==
    IF order = <<>> THEN <<>>
    ELSE (IF Head(order) = serviceName THEN <<>>
          ELSE AppendMatches(config[Head(order)], serviceName, Head(order)))
         \o FakeListDependentServices(serviceName, Tail(order))

\* what EnumDependentServicesW reports: the services declaring serviceName
RealListDependentServices(serviceName, order) ==
    SelectSeq(order, LAMBDA d : d \in Declaring(serviceName))

\* no dependent found
ListNoDependents(serviceName) == {<<>>}

\* manager.listDependentServices / testMgr.listDependentServices: the lists
\* the call can return (Go map iteration and the OS fix no order)
ListDependentServices(serviceName) ==
    {IF variant = "fake" THEN FakeListDependentServices(serviceName, o)
     ELSE RealListDependentServices(serviceName, o) : o \in Orders(svcs)}

\* ------------------------------------------------------------------ call stack
Frame(n, t, pc, todo) == [svc |-> n, target |-> t, pc |-> pc, todo |-> todo, polls |-> 0]

Top == stack[Len(stack)]

Below == SubSeq(stack, 1, Len(stack) - 1)

\* a request issued by the call in progress: op is "List", "Start", "Control"
\* or "Wait"; list is what a "List" request returned
Event(op, n, err, list) == [op |-> op, svc |-> n, err |-> err, list |-> list]

\* no call in progress and the last call's return value taken by its caller
Idle == stack = <<>> /\ call = NoCall

\* the registry without service n (fakeServiceList.remove / mgr.Service.Delete)
Removed(st, n) ==
    [svcs |-> svcs \ {n},
     status |-> [st EXCEPT ![n] = "stopped"],
     config |-> [config EXCEPT ![n] = <<>>]]

\* the error of a dependent's stop taken for success by the caller
ReturnSwallow(below, c, r, st, ev) ==
    /\ events' = ev
    /\ status' = st
    /\ UNCHANGED <<svcs, config>>
    /\ IF below = <<>>
       THEN /\ stack' = <<>>
            /\ result' = r
       ELSE /\ stack' = [below EXCEPT ![Len(below)].todo = Tail(@)]
            /\ result' = "none"

\* An EnsureServiceState invocation returns r to the frames in below, with the
\* service states st and the requests ev issued so far.  An error returned to
\* a caller frame is wrapped and returned by every caller in turn; the
\* outermost return ends manager call c, and DeleteService then removes the
\* service if the stop succeeded.
Return(below, c, r, st, ev) ==
    /\ events' = ev
    /\ IF below = <<>>
       THEN /\ stack' = <<>>
            /\ IF c.op = "delete"
               THEN IF r = "ok"
                    THEN /\ result' = "ok"
                         /\ svcs' = Removed(st, c.name).svcs
                         /\ status' = Removed(st, c.name).status
                         /\ config' = Removed(st, c.name).config
                    ELSE /\ result' = "err_stop"
                         /\ status' = st
                         /\ UNCHANGED <<svcs, config>>
               ELSE /\ result' = r
                    /\ status' = st
                    /\ UNCHANGED <<svcs, config>>
       ELSE /\ status' = st
            /\ UNCHANGED <<svcs, config>>
            /\ IF r = "ok"
               THEN /\ stack' = [below EXCEPT ![Len(below)].todo = Tail(@)]
                    /\ result' = "none"
               ELSE /\ stack' = <<>>
                    /\ result' = IF c.op = "delete" THEN "err_stop" ELSE "err_dependent"

\* The invocation goes on in frame f on top of below.
Continue(below, f, st, ev) ==
    /\ stack' = Append(below, f)
    /\ status' = st
    /\ events' = ev
    /\ result' = "none"
    /\ UNCHANGED <<svcs, config>>

\* manager.OpenService: one handle of the service control manager; the test
\* double's OpenService and read return the FakeService stored in the map
Handle == IF variant = "real" THEN 1 ELSE 0

\* defer service.Close() of manager.DeleteService, run when the call with the
\* frames stk returns
Deferred(stk) == IF call.op = "delete" /\ stk = <<>> THEN Handle ELSE 0

\* the comparison left out
NeverInState(q, t) == FALSE

\* the comparison always found equal
AlwaysInState(q, t) == TRUE

\* if status.State == state
AlreadyInState(q, t) == q = t

\* the default case falling into case svc.Running
SwitchDefaultStart(t) ==
    IF t = "stopped" THEN "stop" ELSE "start"

\* the two cases exchanged
SwitchExchanged(t) ==
    IF t = "running" THEN "stop"
    ELSE IF t = "stopped" THEN "start"
    ELSE "default"

\* switch state: the case taken
Switch(t) ==
    IF t = "running" THEN "start"
    ELSE IF t = "stopped" THEN "stop"
    ELSE "default"

\* the real manager not waiting for the state change
AfterActionNoWait(v, err) == "return"

\* what follows a Start or Control that returned err: the test double returns
\* err, the real manager returns an error at once and otherwise waits for the
\* state change
AfterAction(v, err) ==
    IF err # "ok" THEN "return"
    ELSE IF v = "fake" THEN "return"
    ELSE "wait"

\* EnsureServiceState(service n, state t) is entered on top of the frames in
\* below: Query, the comparison with the target and the switch on the target.
Enter(below, c, n, t, ev) ==
    IF AlreadyInState(Query(status, n), t)
    THEN Return(below, c, "ok", status, ev)
    ELSE IF Len(below) >= MaxDepth
    THEN \* the recursion is deeper than the model follows it
         /\ stack' = <<>>
         /\ result' = "overflow"
         /\ events' = ev
         /\ UNCHANGED <<svcs, status, config>>
    ELSE IF Switch(t) = "start"
    THEN Continue(below, Frame(n, t, "start", <<>>), status, ev)
    ELSE IF Switch(t) = "stop"
    THEN \/ \E l \in ListDependentServices(n) :
              Continue(below, Frame(n, t, "deps", l), status, Append(ev, Event("List", n, "ok", l)))
         \/ /\ variant = "real"
            /\ Return(below, c, "err_list", status, Append(ev, Event("List", n, "err_list", <<>>)))
    ELSE Return(below, c, "err_state", status, ev)

\* ------------------------------------------------------------------ initial states
\* NewTestMgr(existingServices) / mgr.Connect(): any registry, no call made
Init ==
    /\ variant \in Variants
    /\ svcs \in SUBSET Names
    /\ status \in Statuses
    /\ variant = "fake" => \A n \in Names : status[n] \in {"stopped", "running"}
    /\ \A n \in Names \ svcs : status[n] = "stopped"
    /\ config \in Configs
    /\ \A n \in Names \ svcs : config[n] = <<>>
    /\ stack = <<>>
    /\ call = NoCall
    /\ result = "none"
    /\ events = <<>>
    /\ pre = Snapshot
    /\ open = 0
    /\ mutex = Unlocked
    /\ callers = [t \in Callers |-> NoOp]
    /\ object = [n \in Names |-> 0]
    /\ enum = NoEnum

\* ------------------------------------------------------------------ manager calls
\* CreateService without the test for an existing service
CreateServiceOverwrite(name, deps) ==
    /\ Idle
    /\ call' = [op |-> "create", name |-> name, target |-> "none"]
    /\ pre' = Snapshot
    /\ events' = <<>>
    /\ UNCHANGED <<variant, stack, open, others>>
    /\ Edges([config EXCEPT ![name] = deps], svcs \cup {name}) <= MaxEdges
    /\ result' = "ok"
    /\ svcs' = svcs \cup {name}
    /\ status' = [status EXCEPT ![name] = "stopped"]
    /\ config' = [config EXCEPT ![name] = deps]

\* testMgr.CreateService / manager.CreateService
CreateService(name, deps) ==
    /\ Idle
    /\ call' = [op |-> "create", name |-> name, target |-> "none"]
    /\ pre' = Snapshot
    /\ events' = <<>>
    /\ UNCHANGED <<variant, stack, open, others>>
    /\ IF name \in svcs
       THEN /\ result' = "err_exists"
            /\ UNCHANGED <<svcs, status, config>>
       ELSE /\ Edges(config, svcs) + Len(deps) <= MaxEdges
            /\ result' = "ok"
            /\ svcs' = svcs \cup {name}
            /\ status' = [status EXCEPT ![name] = "stopped"]
            /\ config' = [config EXCEPT ![name] = deps]

\* DeleteService reporting a missing service as an error
DeleteServiceStrict(name) ==
    /\ Idle
    /\ call' = [op |-> "delete", name |-> name, target |-> "stopped"]
    /\ pre' = Snapshot
    /\ UNCHANGED <<variant, others>>
    /\ IF name \notin svcs
       THEN /\ result' = "err_open"
            /\ events' = <<>>
            /\ UNCHANGED <<svcs, status, config, stack>>
       ELSE Enter(<<>>, call', name, "stopped", <<>>)
    /\ open' = IF name \in svcs /\ stack' # <<>> THEN Handle ELSE 0

\* testMgr.DeleteService / manager.DeleteService
DeleteService(name) ==
    /\ Idle
    /\ call' = [op |-> "delete", name |-> name, target |-> "stopped"]
    /\ pre' = Snapshot
    /\ UNCHANGED <<variant, others>>
    /\ IF name \notin svcs
       THEN /\ result' = "ok"
            /\ events' = <<>>
            /\ UNCHANGED <<svcs, status, config, stack>>
       ELSE Enter(<<>>, call', name, "stopped", <<>>)
    /\ open' = IF name \in svcs /\ stack' # <<>> THEN Handle ELSE 0

\* testMgr.EnsureServiceState / manager.EnsureServiceState, called by a user
\* of the manager on a handle it got from OpenService or CreateService
EnsureServiceState(name, state) ==
    /\ Idle
    /\ name \in svcs
    /\ call' = [op |-> "ensure", name |-> name, target |-> state]
    /\ pre' = Snapshot
    /\ UNCHANGED <<variant, open, others>>
    /\ Enter(<<>>, call', name, state, <<>>)

\* ------------------------------------------------------------------ steps of a call in progress
\* case svc.Running: service.Start()
StartStep ==
    /\ stack # <<>>
    /\ Top.pc = "start"
    /\ UNCHANGED <<variant, call, pre, others>>
    /\ \E o \in (IF variant = "fake" THEN FakeStart(status, Top.svc)
                 ELSE RealStart(status, Top.svc)) :
         LET st == [status EXCEPT ![Top.svc] = o.state]
             ev == Append(events, Event("Start", Top.svc, o.err, <<>>))
         IN IF AfterAction(variant, o.err) = "return"
            THEN Return(Below, call, o.err, st, ev)
            ELSE Continue(Below, [Top EXCEPT !.pc = "wait"], st, ev)
    /\ open' = open - Deferred(stack')

\* case svc.Stopped: the loop over the dependents
DependentStep ==
    /\ stack # <<>>
    /\ Top.pc = "deps"
    /\ Top.todo # <<>>
    /\ UNCHANGED <<variant, call, pre, others>>
    /\ IF Head(Top.todo) \notin svcs
       THEN /\ Return(Below, call, "err_open", status, events)
            /\ open' = open - Deferred(stack')
       ELSE /\ Enter(stack, call, Head(Top.todo), "stopped", events)
            /\ open' = open + Handle - Deferred(stack')

\* case svc.Stopped: service.Control(svc.Stop) once the loop is over
ControlStep ==
    /\ stack # <<>>
    /\ Top.pc = "deps"
    /\ Top.todo = <<>>
    /\ UNCHANGED <<variant, call, pre, others>>
    /\ \E o \in (IF variant = "fake" THEN FakeControl(status, Top.svc)
                 ELSE RealControl(status, Top.svc)) :
         LET st == [status EXCEPT ![Top.svc] = o.state]
             ev == Append(events, Event("Control", Top.svc, o.err, <<>>))
         IN IF AfterAction(variant, o.err) = "return"
            THEN Return(Below, call, o.err, st, ev)
            ELSE Continue(Below, [Top EXCEPT !.pc = "wait"], st, ev)
    /\ open' = open - Deferred(stack')

\* winsvc.WaitForState: one Query of the poll loop
WaitStep ==
    /\ stack # <<>>
    /\ Top.pc = "wait"
    /\ UNCHANGED <<variant, call, pre, others>>
    /\ IF Query(status, Top.svc) = Top.target
       THEN Return(Below, call, "ok", status,
                   Append(events, Event("Wait", Top.svc, "ok", <<>>)))
       ELSE IF Top.polls + 1 >= MaxPolls
       THEN Return(Below, call, "err_timeout", status,
                   Append(events, Event("Wait", Top.svc, "err_timeout", <<>>)))
       ELSE Continue(Below, [Top EXCEPT !.polls = @ + 1], status, events)
    /\ open' = open - Deferred(stack')

\* the service control manager completes a pending transition of service n
Settle(n) ==
    /\ variant = "real"
    /\ stack # <<>> \/ call = NoCall
    /\ n \in svcs
    /\ status[n] \in {"start_pending", "stop_pending"}
    /\ status' = [status EXCEPT ![n] = IF @ = "start_pending" THEN "running" ELSE "stopped"]
    /\ UNCHANGED <<variant, svcs, config, stack, call, result, events, pre, open, others>>

\* the caller takes the value the call returned; the next call can be made
Collect ==
    /\ stack = <<>>
    /\ call # NoCall
    /\ call' = NoCall
    /\ result' = "none"
    /\ events' = <<>>
    /\ pre' = Snapshot
    /\ open' = 0
    /\ UNCHANGED <<variant, svcs, status, config, stack, others>>

Next ==
    \/ \E n \in Names, d \in DepLists : CreateService(n, d)
    \/ \E n \in Names : DeleteService(n)
    \/ \E n \in Names, t \in Targets : EnsureServiceState(n, t)
    \/ StartStep
    \/ DependentStep
    \/ ControlStep
    \/ WaitStep
    \/ \E n \in Names : Settle(n)
    \/ Collect

Spec == Init /\ [][Next]_vars

\* A call in progress runs on: EnsureServiceState is a synchronous loop of
\* the calling goroutine.  The service control manager owes nothing.
FairSpec ==
    Spec /\ WF_vars(StartStep) /\ WF_vars(DependentStep) /\ WF_vars(ControlStep) /\ WF_vars(WaitStep)

\* ------------------------------------------------------------------ enumeration loop of the real manager
\* the variables of a manager call and the registry, which the enumeration
\* loop and the concurrent callers leave alone
callVars == <<variant, stack, call, result, events, pre, open>>

\* a real manager with any registry, nothing called
InitEnum == Init /\ variant = "real"

\* manager.listDependentServices(serviceHandle) is entered for service n:
\* var serviceBuffer []byte; var bytesNeeded uint32
listDependentServices(n) ==
    /\ enum.pc = "idle"
    /\ n \in svcs
    /\ enum' = [NoEnum EXCEPT !.pc = "loop", !.svc = n]
    /\ UNCHANGED <<callVars, svcs, status, config, mutex, callers, object>>

\* what one EnumDependentServicesW call can answer for a buffer of len
\* records: success when the dependents fit; ERROR_MORE_DATA with any size
\* (the dependents can change between the calls; a size of at most len is the
\* answer tested at line 177); another error
Answers(n, len) ==
    (IF Cardinality(Declaring(n)) <= len
     THEN {[err |-> "success", bytesNeeded |-> Cardinality(Declaring(n))]}
     ELSE {})
    \cup {[err |-> "more_data", bytesNeeded |-> k] : k \in 0..MaxBytes}
    \cup {[err |-> "other", bytesNeeded |-> 0]}

\* if bytesNeeded <= uint32(len(serviceBuffer)) { return nil, err }
GiveUp(needed, len) == needed <= len

\* one turn of the for loop: the syscall and the tests on its answer
enumDependentServicesSyscall ==
    /\ enum.pc = "loop"
    /\ \E a \in Answers(enum.svc, enum.serviceBuffer) :
         enum' = [enum EXCEPT
                    !.answer = a.err,
                    !.attempts = @ + 1,
                    !.bytesNeeded = IF a.err = "other" THEN @ ELSE a.bytesNeeded,
                    !.serviceBuffer =
                        IF a.err = "more_data" /\ ~GiveUp(a.bytesNeeded, @)
                        THEN a.bytesNeeded ELSE @,
                    !.pc =
                        IF a.err = "more_data" /\ ~GiveUp(a.bytesNeeded, enum.serviceBuffer)
                        THEN "loop" ELSE "done"]
    /\ UNCHANGED <<callVars, svcs, status, config, mutex, callers, object>>

\* the caller of listDependentServices takes what it returned
EnumReturn ==
    /\ enum.pc = "done"
    /\ enum' = NoEnum
    /\ UNCHANGED <<callVars, svcs, status, config, mutex, callers, object>>

NextEnum ==
    \/ \E n \in Names : listDependentServices(n)
    \/ enumDependentServicesSyscall
    \/ EnumReturn

SpecEnum == InitEnum /\ [][NextEnum]_vars

\* ------------------------------------------------------------------ concurrent callers of the test double
\* a test double whose services declare no dependencies, nothing called
InitConc ==
    /\ Init
    /\ variant = "fake"
    /\ config = [n \in Names |-> <<>>]

\* goroutine t has returned from its manager call
Returned(t) == callers[t].pc = "done"

\* goroutine t goes on at pc; a goroutine ranging over the map while the map
\* is written (by a goroutine other than itself) has raced with that write
Advance(t, pc, written) ==
    [u \in Callers |->
        IF u = t THEN [callers[t] EXCEPT !.pc = pc]
        ELSE IF written /\ callers[u].pc = "ranging" THEN [callers[u] EXCEPT !.raced = TRUE]
        ELSE callers[u]]

\* goroutine t returns r from its manager call
Finish(t, r, written) ==
    [Advance(t, "done", written) EXCEPT ![t].result = r]

\* goroutine t calls CreateService(n, ...) or DeleteService(n); both begin
\* with t.svcList.read(name)
Call(t, op, n) ==
    /\ callers[t].pc = "idle"
    /\ callers' = [callers EXCEPT ![t] = [NoOp EXCEPT !.op = op, !.name = n, !.pc = "read"]]
    /\ UNCHANGED <<callVars, svcs, status, config, mutex, object, enum>>

\* l.m.Lock() at the head of read, write and remove
Lock(t) ==
    /\ callers[t].pc \in {"read", "write", "remove"}
    /\ mutex = Unlocked
    /\ mutex' = t
    /\ callers' = Advance(t, CASE callers[t].pc = "read" -> "reading"
                                [] callers[t].pc = "write" -> "writing"
                                [] OTHER -> "removing", FALSE)
    /\ UNCHANGED <<callVars, svcs, status, config, object, enum>>

\* fakeServiceList.read with the mutex held, the deferred Unlock, and the
\* test on its result in CreateService and DeleteService
read(t) ==
    /\ callers[t].pc = "reading"
    /\ mutex = t
    /\ mutex' = Unlocked
    /\ LET exists == callers[t].name \in svcs
       IN callers' =
            IF callers[t].op = "create"
            THEN IF exists THEN Finish(t, "err_exists", FALSE)
                 ELSE Advance(t, "write", FALSE)
            ELSE IF exists THEN [Advance(t, "query", FALSE) EXCEPT ![t].exists = TRUE]
                 ELSE Finish(t, "ok", FALSE)
    /\ UNCHANGED <<callVars, svcs, status, config, object, enum>>

\* fakeServiceList.write with the mutex held: l.svcs[name] = svc, a new
\* FakeService in state svc.Stopped; CreateService returns it
write(t) ==
    /\ callers[t].pc = "writing"
    /\ mutex = t
    /\ mutex' = Unlocked
    /\ svcs' = svcs \cup {callers[t].name}
    /\ status' = [status EXCEPT ![callers[t].name] = "stopped"]
    /\ config' = [config EXCEPT ![callers[t].name] = <<>>]
    /\ object' = [object EXCEPT ![callers[t].name] = t]
    /\ callers' = Finish(t, "ok", TRUE)
    /\ UNCHANGED <<callVars, enum>>

\* EnsureServiceState(winSvc, svc.Stopped) of DeleteService: Query and the
\* comparison with the target
QueryStopped(t) ==
    /\ callers[t].pc = "query"
    /\ callers' = Advance(t, IF AlreadyInState(Query(status, callers[t].name), "stopped")
                             THEN "remove" ELSE "range", FALSE)
    /\ UNCHANGED <<callVars, svcs, status, config, mutex, object, enum>>

\* testMgr.listDependentServices: for name, svc := range t.svcList.svcs
\* begins, the mutex not taken
RangeBegin(t) ==
    /\ callers[t].pc = "range"
    /\ callers' = Advance(t, "ranging", FALSE)
    /\ UNCHANGED <<callVars, svcs, status, config, mutex, object, enum>>

\* the range loop ends: no service declares a dependency, the result is
\* empty; a loop that raced with a write of the map ends like that or in the
\* runtime's fatal error (concurrent map iteration and map write)
RangeEnd(t) ==
    /\ callers[t].pc = "ranging"
    /\ \/ callers' = Advance(t, "control", FALSE)
       \/ /\ callers[t].raced
          /\ callers' = Finish(t, "fatal", FALSE)
    /\ UNCHANGED <<callVars, svcs, status, config, mutex, object, enum>>

\* service.Control(svc.Stop) of EnsureServiceState, whose error DeleteService
\* wraps and returns
ControlStop(t) ==
    /\ callers[t].pc = "control"
    /\ \E o \in FakeControl(status, callers[t].name) :
         /\ status' = [status EXCEPT ![callers[t].name] = o.state]
         /\ callers' = IF o.err = "ok" THEN Advance(t, "remove", FALSE)
                       ELSE Finish(t, "err_stop", FALSE)
    /\ UNCHANGED <<callVars, svcs, config, mutex, object, enum>>

\* fakeServiceList.remove with the mutex held, whose result DeleteService
\* returns
remove(t) ==
    /\ callers[t].pc = "removing"
    /\ mutex = t
    /\ mutex' = Unlocked
    /\ IF callers[t].name \notin svcs
       THEN /\ callers' = Finish(t, "err_not_exist", FALSE)
            /\ UNCHANGED <<svcs, status, config>>
       ELSE /\ callers' = Finish(t, "ok", TRUE)
            /\ svcs' = Removed(status, callers[t].name).svcs
            /\ status' = Removed(status, callers[t].name).status
            /\ config' = Removed(status, callers[t].name).config
    /\ UNCHANGED <<callVars, object, enum>>

NextConc ==
    \/ \E t \in Callers, op \in {"create", "delete"}, n \in Names : Call(t, op, n)
    \/ \E t \in Callers : Lock(t)
    \/ \E t \in Callers : read(t)
    \/ \E t \in Callers : write(t)
    \/ \E t \in Callers : QueryStopped(t)
    \/ \E t \in Callers : RangeBegin(t)
    \/ \E t \in Callers : RangeEnd(t)
    \/ \E t \in Callers : ControlStop(t)
    \/ \E t \in Callers : remove(t)

SpecConc == InitConc /\ [][NextConc]_vars

\* ------------------------------------------------------------------ vocabulary of the properties
\* the last manager call has returned and its value is not yet taken
Done == stack = <<>> /\ call # NoCall

\* registered services of registry r that declare x, directly
DependentsIn(r, x) == {d \in r.svcs : x \in Range(r.config[d])}

\* registered services of registry r that depend on x, directly or transitively
TransDependentsIn(r, x) ==
    LET RECURSIVE Grow(_)
        Grow(S) == LET T == S \cup UNION {DependentsIn(r, y) : y \in S}
                   IN IF T = S THEN S ELSE Grow(T)
    IN Grow(DependentsIn(r, x))

\* the declared dependency graph of registry r has no cycle
AcyclicIn(r) == \A n \in r.svcs : n \notin TransDependentsIn(r, n)

\* this step issues a stop control request on service x
StopIssued(x) ==
    /\ Len(events') = Len(events) + 1
    /\ events'[Len(events')].op = "Control"
    /\ events'[Len(events')].svc = x

\* the requests of kind op issued so far by the current call
Issued(op) == {i \in 1..Len(events) : events[i].op = op}

\* C1: whenever a stop control request is issued on a service X, in an
\* acyclic dependency graph, every service that directly or transitively
\* depends on X is in the stopped state.
C1_DependentsStoppedBeforeStop ==
    [][\A x \in Names :
          (AcyclicIn(Snapshot) /\ StopIssued(x))
              => \A d \in TransDependentsIn(Snapshot, x) : status[d] = "stopped"]_vars

\* C2: for a chain x -> y -> z of running services, no stop control request
\* of EnsureServiceState(z, stopped) is refused because of running dependents,
\* and a successful call ends with x, y and z stopped.
C2_ChainStopped ==
    \A x, y, z \in Names :
        (/\ call.op = "ensure" /\ call.name = z /\ call.target = "stopped"
         /\ Cardinality({x, y, z}) = 3
         /\ {x, y, z} \subseteq pre.svcs
         /\ y \in Range(pre.config[x]) /\ z \in Range(pre.config[y])
         /\ \A n \in {x, y, z} : pre.status[n] = "running")
        => /\ \A i \in Issued("Control") : events[i].err # "err_dependents_running"
           /\ (Done /\ result = "ok") => \A n \in {x, y, z} : status[n] = "stopped"

\* C2 witness: such a call has returned success after stopping all three
C2_Witness ==
    /\ Done /\ result = "ok"
    /\ call.op = "ensure" /\ call.target = "stopped"
    /\ \E x, y \in Names :
          /\ Cardinality({x, y, call.name}) = 3
          /\ {x, y, call.name} \subseteq pre.svcs
          /\ y \in Range(pre.config[x]) /\ call.name \in Range(pre.config[y])
          /\ \A n \in {x, y, call.name} : pre.status[n] = "running"
    /\ Cardinality(Issued("Control")) = 3
    /\ variant = "real"

\* C3: EnsureServiceState called on a service already in the target state
\* returns success, issues no request and changes nothing; and a call that
\* returned success leaves the service in the target state, so that the same
\* call made again is such a no-op.
C3_Idempotent ==
    (Done /\ call.op = "ensure")
    => /\ pre.status[call.name] = call.target
            => (result = "ok" /\ events = <<>> /\ Snapshot = pre)
       /\ result = "ok" => status[call.name] = call.target

\* C3 witness: a stop of an already stopped service that has a running
\* dependent returned success
C3_Witness ==
    /\ Done /\ call.op = "ensure" /\ call.target = "stopped"
    /\ pre.status[call.name] = "stopped"
    /\ \E d \in DependentsIn(pre, call.name) : pre.status[d] = "running"
    /\ result = "ok"

Unsupported(t) == t \notin {"running", "stopped"}

\* C4 as stated: a target state other than running or stopped is answered
\* with an error at once, whatever the state of the service, and no request
\* is issued.
C4_UnsupportedAlwaysError ==
    (call.op = "ensure" /\ Unsupported(call.target))
    => (Done /\ result = "err_state" /\ events = <<>>)

\* C4 amended: a target state other than running or stopped is answered at
\* once and without any request or change: with success when the service is
\* already in that state, with an error otherwise.
C4_UnsupportedTarget ==
    (call.op = "ensure" /\ Unsupported(call.target))
    => /\ Done
       /\ events = <<>>
       /\ Snapshot = pre
       /\ result = (IF pre.status[call.name] = call.target THEN "ok" ELSE "err_state")

\* C4 witness: the paused state was asked of a running service
C4_Witness ==
    /\ Done /\ call.op = "ensure" /\ call.target = "paused"
    /\ pre.status[call.name] = "running"
    /\ result = "err_state"

\* the state a Start or Control(stop) request is to end in
Goal(e) == IF e.op = "Start" THEN "running" ELSE "stopped"

\* the invocation that issued request i is still waiting for the state change
Waiting(i) ==
    /\ stack # <<>>
    /\ Top.pc = "wait"
    /\ Top.svc = events[i].svc
    /\ i = Len(events)

\* the invocation that issued request i gave up with a transition timeout,
\* which ended the manager call with that error: as it is for the outermost
\* invocation, wrapped by the callers otherwise
TimedOut(i) ==
    /\ Done
    /\ i + 1 = Len(events)
    /\ events[i + 1] = Event("Wait", events[i].svc, "err_timeout", <<>>)
    /\ result \in (IF call.op = "delete" THEN {"err_stop"}
                   ELSE IF events[i].svc = call.name THEN {"err_timeout", "err_dependent"}
                   ELSE {"err_dependent"})

\* an invocation in the poll loop has a poll left
InWait == stack # <<>> /\ Top.pc = "wait"

\* C5: once a Start or Control(stop) has been accepted, the invocation that
\* issued it is waiting, or the service is in the target state, or the
\* invocation returned a transition-timeout error; and an invocation that is
\* waiting always leaves the poll loop.
C5_TimeoutNotHang ==
    /\ [](\A i \in Issued("Start") \cup Issued("Control") :
            events[i].err = "ok"
                => \/ Waiting(i)
                   \/ status[events[i].svc] = Goal(events[i])
                   \/ TimedOut(i))
    /\ [](\A k \in 1..Len(stack) : stack[k].polls < MaxPolls)
    /\ (InWait ~> ~InWait)

\* C5 witness: the call returned a transition timeout for a service whose
\* transition is still pending
C5_Witness ==
    /\ Done /\ call.op = "ensure" /\ result = "err_timeout"
    /\ status[call.name] \in {"start_pending", "stop_pending"}
    /\ status[call.name] # call.target

C7_CreateConflict ==
    (Done /\ call.op = "create")
    => IF call.name \in pre.svcs
       THEN result = "err_exists" /\ Snapshot = pre
       ELSE /\ result = "ok"
            /\ svcs = pre.svcs \cup {call.name}
            /\ status[call.name] = "stopped"
            /\ \A n \in Names \ {call.name} :
                  status[n] = pre.status[n] /\ config[n] = pre.config[n]

\* C7 witness: the name of a running service with declared dependencies was
\* created again
C7_Witness ==
    /\ Done /\ call.op = "create"
    /\ call.name \in pre.svcs
    /\ pre.status[call.name] = "running"
    /\ pre.config[call.name] # <<>>
    /\ result = "err_exists"

\* C8: every list the test double's listDependentServices(z) returns holds
\* exactly the registered services other than z that declare z, each once.
C8_DependentsExactlyOnce ==
    variant = "fake"
    => \A i \in Issued("List") :
          LET l == events[i].list
              z == events[i].svc
          IN /\ Range(l) = DependentsIn(pre, z) \ {z}
             /\ \A x \in Range(l) : Count(l, x) = 1

\* C9: in the example scenario (web and cache without dependencies, app
\* depending on web and cache, app running, web and cache stopped),
\* EnsureServiceState(web, stopped) stops app and then web and leaves cache
\* as it was.
C9_ScenarioStopsAppThenWeb ==
    \A web, cache, app \in Names :
        (/\ Done /\ call.op = "ensure" /\ call.name = web /\ call.target = "stopped"
         /\ Cardinality({web, cache, app}) = 3
         /\ pre.svcs = {web, cache, app}
         /\ pre.config[web] = <<>> /\ pre.config[cache] = <<>>
         /\ pre.config[app] = <<web, cache>>
         /\ pre.status[web] = "stopped" /\ pre.status[cache] = "stopped"
         /\ pre.status[app] = "running")
        => /\ result = "ok"
           /\ status[app] = "stopped" /\ status[web] = "stopped"
           /\ status[cache] = pre.status[cache]
           /\ \E i, j \in Issued("Control") :
                 i < j /\ events[i].svc = app /\ events[j].svc = web

\* the state the service control manager moves a pending state to
Settled(q) ==
    IF q = "start_pending" THEN "running"
    ELSE IF q = "stop_pending" THEN "stopped"
    ELSE q

\* C10: EnsureServiceState(s, running) issues requests on s only, a Start and
\* the polls that follow it; every other service keeps its state (in the real
\* manager, up to a pending transition the service control manager completes).
C10_StartOnlyTarget ==
    (call.op = "ensure" /\ call.target = "running")
    => /\ \A i \in 1..Len(events) :
             events[i].op \in {"Start", "Wait"} /\ events[i].svc = call.name
       /\ Cardinality(Issued("Start")) <= 1
       /\ \A n \in Names \ {call.name} :
             \/ status[n] = pre.status[n]
             \/ variant = "real" /\ status[n] = Settled(pre.status[n])
       /\ svcs = pre.svcs /\ config = pre.config

\* C10 witness: a service was started whose dependency is stopped and whose
\* dependent is stopped
C10_Witness ==
    /\ Done /\ call.op = "ensure" /\ call.target = "running" /\ result = "ok"
    /\ Issued("Start") # {}
    /\ \E d \in Range(pre.config[call.name]) \ {call.name} :
          d \in svcs /\ status[d] = "stopped"
    /\ \E d \in DependentsIn(pre, call.name) \ {call.name} : status[d] = "stopped"

\* C11: a DeleteService of a registered service, in an acyclic dependency
\* graph, that returned success has removed that service and no other, after
\* a stop that was not refused and with every direct or transitive dependent
\* stopped; one that returned an error has left the registry as it was.
C11_DeleteAfterStop ==
    (Done /\ call.op = "delete" /\ call.name \in pre.svcs /\ AcyclicIn(pre))
    => IF result = "ok"
       THEN /\ svcs = pre.svcs \ {call.name}
            /\ \A i \in Issued("Control") : events[i].err = "ok"
            /\ \A d \in TransDependentsIn(pre, call.name) : status[d] = "stopped"
       ELSE svcs = pre.svcs

C13_SuccessFromPoll ==
    (Done /\ call.op = "ensure" /\ result = "ok")
    => /\ status[call.name] = call.target
       /\ \A i \in Issued("Start") \cup Issued("Control") :
             /\ i < Len(events)
             /\ events[i + 1] = Event("Wait", events[i].svc, "ok", <<>>)

\* C15: when a call of the real manager has returned, every handle it opened
\* is closed.
C15_HandlesClosed ==
    (Done /\ variant = "real" /\ result # "overflow") => open = 0

\* service n lies on a cycle of the declared dependency graph of registry r
OnCycleIn(r, n) == n \in TransDependentsIn(r, n)

\* registry r restricted to its services whose state is in keep, with the
\* declarations the enumeration of this manager reports (the test double
\* skips a service's declaration of itself)
Among(r, keep) ==
    [svcs |-> {n \in r.svcs : r.status[n] \in keep},
     status |-> r.status,
     config |-> [n \in Names |->
                    IF variant = "fake"
                    THEN SelectSeq(r.config[n], LAMBDA d : d # n)
                    ELSE r.config[n]]]

\* the last call was EnsureServiceState(n, stopped)
StopCalled(n) == call.op = "ensure" /\ call.name = n /\ call.target = "stopped"

\* C17 as stated: EnsureServiceState(s, stopped) on a service of a cycle that
\* is not yet stopped never returns unless one of its requests fails, whatever
\* the cycle; in an acyclic graph the recursion ends.
C17_CycleNeverReturns ==
    /\ \A n \in Names :
          (/\ Done /\ StopCalled(n) /\ OnCycleIn(pre, n) /\ pre.status[n] # "stopped"
           /\ \A i \in 1..Len(events) : events[i].err = "ok")
              => result = "overflow"
    /\ result = "overflow" => \E n \in Names : OnCycleIn(pre, n)

\* C17 amended: the recursion goes deeper than the registry has services only
\* on a cycle of services none of which was stopped when the call was made (in
\* the test double a cycle other than a service's declaration of itself); and
\* EnsureServiceState(s, stopped) on a service of a cycle of running services
\* never returns success, and in the test double never returns.
C17_LiveCycleRecursion ==
    /\ result = "overflow"
          => \E n \in Names : OnCycleIn(Among(pre, States \ {"stopped"}), n)
    /\ (\A n \in Names : ~OnCycleIn(Among(pre, States \ {"stopped"}), n))
          => Len(stack) <= Cardinality(svcs)
    /\ \A n \in Names :
          (Done /\ StopCalled(n) /\ OnCycleIn(Among(pre, {"running"}), n))
              => /\ result # "ok"
                 /\ variant = "fake" => result = "overflow"

\* C17 witness: the recursion on a cycle of two running services went deeper
\* than the model follows it
C17_Witness ==
    /\ Done /\ result = "overflow"
    /\ \E n \in Names :
          /\ StopCalled(n)
          /\ OnCycleIn(Among(pre, {"running"}), n)
          /\ n \notin Range(pre.config[n])

\* this step issues a Start on service x
StartIssued(x) ==
    /\ Len(events') = Len(events) + 1
    /\ events'[Len(events')].op = "Start"
    /\ events'[Len(events')].svc = x

\* C18: no Start is issued on a service that is start-pending and no
\* Control(stop) on a service that is stop-pending, and a call for the running
\* or the stopped state does not return success with the service in a pending
\* state.
C18_PendingKeepsPolling ==
    /\ [][\A x \in Names :
             /\ StartIssued(x) => status[x] # "start_pending"
             /\ StopIssued(x) => status[x] # "stop_pending"]_vars
    /\ []((Done /\ call.op = "ensure" /\ call.target \in {"running", "stopped"} /\ result = "ok")
             => status[call.name] \notin {"start_pending", "stop_pending"})

\* C16: every attempt after the first uses a buffer of the size reported
\* last, and the loop is left only on success or on an error other than
\* ERROR_MORE_DATA.
C16_RetryUntilAnswered ==
    /\ (enum.pc = "loop" /\ enum.attempts > 0) => enum.serviceBuffer = enum.bytesNeeded
    /\ enum.pc = "done" => enum.answer \in {"success", "other"}

\* goroutine t touches the map fakeServiceList.svcs
Touching(t) == callers[t].pc \in {"reading", "writing", "removing", "ranging"}

\* C14: a goroutine that reads, writes or ranges over the map of the test
\* double holds the mutex, and none ranges over the map while another is to
\* write it.
C14_MapUnderMutex ==
    /\ \A t \in Callers : Touching(t) => mutex = t
    /\ \A t, u \in Callers :
          ~(callers[t].pc = "ranging" /\ callers[u].pc \in {"writing", "removing"})

\* the goroutines whose call is op on name n
CallsOf(op, n) == {t \in Callers : callers[t].op = op /\ callers[t].name = n}

\* C19: when several goroutines have run CreateService with the same name,
\* which was not registered and which no goroutine deletes, exactly one of
\* them got success, and the service in the registry is the one it made.
C19_OneCreateWins ==
    \A n \in Names :
        (/\ Cardinality(CallsOf("create", n)) >= 2
         /\ CallsOf("delete", n) = {}
         /\ n \notin pre.svcs
         /\ \A t \in CallsOf("create", n) : Returned(t))
        => /\ Cardinality({t \in CallsOf("create", n) : callers[t].result = "ok"}) = 1
           /\ \A t \in CallsOf("create", n) :
                 callers[t].result = "ok" => object[n] = t

\* C20: when several goroutines have run DeleteService with the same name
\* of a registered service, which no goroutine creates, each of them got
\* success and the service is not in the registry.
C20_AllDeletesSucceed ==
    \A n \in Names :
        (/\ Cardinality(CallsOf("delete", n)) >= 2
         /\ CallsOf("create", n) = {}
         /\ n \in pre.svcs
         /\ \A t \in CallsOf("delete", n) : Returned(t))
        => /\ \A t \in CallsOf("delete", n) : callers[t].result = "ok"
           /\ n \notin svcs

====
